---- MODULE Spec2Model ----
(***************************************************************************)
(* FileCache (pkg/nuclide-open-files-rpc/lib/FileCache.js): the map of     *)
(* open text buffers, the Subject of canonical file events, the            *)
(* BehaviorSubject of open directories, and the FileVersionNotifier that   *)
(* the cache forwards every canonical event to.                            *)
(*                                                                         *)
(* A text is a sequence of characters and a range is a pair of offsets     *)
(* into it (one line of text: the column part of a text-buffer Point).     *)
(* An absent value (null) is the empty set, a present one a singleton.     *)
(***************************************************************************)
EXTENDS Naturals, Integers, Sequences, FiniteSets, TLC

\* ---------------------------------------------------------------- bounds
MaxLen == 2
MaxVersion == 2
MaxLog == 3

Paths == {"/a", "/b"}
Chars == {"x", "y"}
Observers == {"o1"}
Readers == {"r1"}

Versions == 0..MaxVersion
NoVersion == 0 - 1
Texts == UNION {[1..n -> Chars] : n \in 0..MaxLen}
Ranges == {[start |-> s, end |-> e] : s \in 0..MaxLen, e \in 0..MaxLen}
ForwardRanges == {r \in Ranges : r.start <= r.end}
DirectorySets == SUBSET {"/d"}

\* ------------------------------------------------------------ TextBuffer
Min(a, b) == IF a <= b THEN a ELSE b

\* text-buffer clips a range to the text: each end into 0..length, the end
\* never before the start.
clipRange(text, range) ==
    LET s == Min(range.start, Len(text))
        e == Min(range.end, Len(text))
    IN  [start |-> s, end |-> IF e < s THEN s ELSE e]

TextBuffer(contents) == [text |-> contents, changeCount |-> 0]

getText(buffer) == buffer.text

getRange(buffer) == [start |-> 0, end |-> Len(buffer.text)]

getTextInRange(buffer, range) ==
    LET r == clipRange(buffer.text, range)
    IN  SubSeq(buffer.text, r.start + 1, r.end)

\* Every mutation of a TextBuffer bumps its changeCount by one.
setTextInRange(buffer, range, newText) ==
    LET r == clipRange(buffer.text, range)
    IN  [buffer EXCEPT
            !.text = SubSeq(buffer.text, 1, r.start) \o newText
                     \o SubSeq(buffer.text, r.end + 1, Len(buffer.text)),
            !.changeCount = @ + 1]

setText(buffer, contents) == setTextInRange(buffer, getRange(buffer), contents)

\* ---------------------------------------------------------------- events
createFileVersion(filePath, version) ==
    [filePath |-> filePath, version |-> version]

createOpenEvent(fileVersion, contents) ==
    [kind |-> "open", fileVersion |-> fileVersion, contents |-> contents]

createCloseEvent(fileVersion) ==
    [kind |-> "close", fileVersion |-> fileVersion]

createEditEvent(fileVersion, oldRange, oldText, newRange, newText) ==
    [kind |-> "edit", fileVersion |-> fileVersion, oldRange |-> oldRange,
     oldText |-> oldText, newRange |-> newRange, newText |-> newText]

createSyncEvent(fileVersion, contents) ==
    [kind |-> "sync", fileVersion |-> fileVersion, contents |-> contents]

\* An event of a kind the switch does not know.
createOtherEvent(fileVersion) == [kind |-> "rename", fileVersion |-> fileVersion]

\* The incoming events about `paths` whose texts are among `texts` and whose
\* ranges are among `ranges`. The newRange of an incoming edit is the range
\* its newText occupies.
FileEventsOver(paths, texts, newTexts, ranges) ==
    LET fileVersions == {createFileVersion(p, v) : p \in paths, v \in Versions}
    IN  {createOpenEvent(fv, c) : fv \in fileVersions, c \in texts}
        \cup {createCloseEvent(fv) : fv \in fileVersions}
        \cup {createEditEvent(fv, r, ot,
                  [start |-> r.start, end |-> r.start + Len(nt)], nt) :
                fv \in fileVersions, r \in ranges, ot \in texts, nt \in newTexts}
        \cup {createSyncEvent(fv, c) : fv \in fileVersions, c \in texts}
        \cup {createOtherEvent(fv) : fv \in fileVersions}

\* One file edited with every text and range of the model ...
EditedPath == "/a"
TextEvents ==
    FileEventsOver({EditedPath}, Texts, {t \in Texts : Len(t) < MaxLen},
                   ForwardRanges)

\* ... and every file with the texts "" and "x", edited at its first character.
SmallTexts == {t \in Texts : Len(t) <= 1 /\ \A i \in DOMAIN t : t[i] = "x"}
SmallRanges == {r \in ForwardRanges : r.start = 0 /\ r.end = 1}
FileEvents == FileEventsOver(Paths, SmallTexts, SmallTexts, SmallRanges)
FileVersions == {createFileVersion(p, v) : p \in Paths, v \in Versions}

EmptyTexts == {t \in Texts : Len(t) = 0}

\* ... and one file with the empty text alone.
SmallFileEvents ==
    FileEventsOver({EditedPath}, EmptyTexts, EmptyTexts, SmallRanges)

\* ... and every file with the empty text alone.
FrameFileEvents == FileEventsOver(Paths, EmptyTexts, EmptyTexts, SmallRanges)

\* ----------------------------------------------------------------- state
VARIABLES
    buffers,                 \* _buffers: the Map's entries, in insertion order
    versions,                \* _requests: latest known version of each path
    requests,                \* _requests: the pending waiters
    resourcesDisposed,       \* _resources has been disposed
    fileEventsStopped,       \* _fileEvents has completed
    directoryEventsStopped,  \* _directoryEvents has completed
    directoryValue,          \* the value _directoryEvents holds
    observers,               \* the clients of observeFileEvents()
    dirObservers,            \* the clients of observeDirectoryEvents()
    readers,                 \* the callers of getBufferAtVersion()
    last,                    \* the last call made on the cache and its outcome
    published,               \* the events the last call passed to _fileEvents.next
    delivered,               \* those of them the Subject passed on to its observers
    session,                 \* per path: the Open and the Edits applied since it
    mirror                   \* the texts kept by an observer of _fileEvents

vars == <<buffers, versions, requests, resourcesDisposed, fileEventsStopped,
          directoryEventsStopped, directoryValue, observers, dirObservers,
          readers, last, published, delivered, session, mirror>>

\* --------------------------------------------------------- the buffer Map
Entry(filePath, buffer) ==
    [filePath |-> filePath, text |-> buffer.text,
     changeCount |-> buffer.changeCount]

mapGet(map, filePath) ==
    {map[i] : i \in {j \in DOMAIN map : map[j].filePath = filePath}}

mapKeys(map) == {map[i].filePath : i \in DOMAIN map}

RECURSIVE mapDelete(_, _)
mapDelete(map, filePath) ==
    IF map = <<>> THEN <<>>
    ELSE IF Head(map).filePath = filePath THEN Tail(map)
    ELSE <<Head(map)>> \o mapDelete(Tail(map), filePath)

\* Map.set: a new key goes last, a known key keeps its place.
mapSet(map, filePath, buffer) ==
    IF filePath \in mapKeys(map)
    THEN [i \in DOMAIN map |->
            IF map[i].filePath = filePath THEN Entry(filePath, buffer)
            ELSE map[i]]
    ELSE Append(map, Entry(filePath, buffer))

getBuffer(filePath) == mapGet(buffers, filePath)

getOpenFiles == mapKeys(buffers)

TheOne(set) == CHOOSE x \in set : TRUE

\* ------------------------------------------- FileCache's private methods
\* Each gives the Map after the call and the events handed to update().
\* _open without its newBuffer.changeCount = changeCount.
openUncounted(map, filePath, contents, changeCount) ==
    [buffers |-> mapSet(map, filePath, TextBuffer(contents)),
     events |-> <<createOpenEvent(createFileVersion(filePath, changeCount),
                                  contents)>>]

open(map, filePath, contents, changeCount) ==
    LET newBuffer == [TextBuffer(contents) EXCEPT !.changeCount = changeCount]
    IN  [buffers |-> mapSet(map, filePath, newBuffer),
         events |-> <<createOpenEvent(createFileVersion(filePath, changeCount),
                                      contents)>>]

\* _close without its _buffers.delete.
closeWithoutDelete(map, filePath, buffer) ==
    [buffers |-> map,
     events |-> <<createCloseEvent(
                    createFileVersion(filePath, buffer.changeCount))>>]

close(map, filePath, buffer) ==
    [buffers |-> mapDelete(map, filePath),
     events |-> <<createCloseEvent(
                    createFileVersion(filePath, buffer.changeCount))>>]

\* syncEdit without its test for messages out of order.
syncEditOutOfOrder(map, filePath, buffer, contents, changeCount) ==
    LET set == setText(buffer, contents)
        synced == [set EXCEPT !.changeCount = changeCount]
    IN  [buffers |-> mapSet(map, filePath, synced),
         events |-> <<createEditEvent(
                        createFileVersion(filePath, changeCount),
                        getRange(buffer), getText(buffer), getRange(set),
                        getText(synced))>>]

\* syncEdit leaving the changeCount to setText.
syncEditCounted(map, filePath, buffer, contents, changeCount) ==
    IF changeCount < buffer.changeCount
    THEN [buffers |-> map, events |-> <<>>]
    ELSE LET set == setText(buffer, contents)
         IN  [buffers |-> mapSet(map, filePath, set),
              events |-> <<createEditEvent(
                             createFileVersion(filePath, changeCount),
                             getRange(buffer), getText(buffer), getRange(set),
                             getText(set))>>]

\* syncEdit reading oldText after its setText.
syncEditLateOldText(map, filePath, buffer, contents, changeCount) ==
    IF changeCount < buffer.changeCount
    THEN [buffers |-> map, events |-> <<>>]
    ELSE LET set == setText(buffer, contents)
             synced == [set EXCEPT !.changeCount = changeCount]
         IN  [buffers |-> mapSet(map, filePath, synced),
              events |-> <<createEditEvent(
                             createFileVersion(filePath, changeCount),
                             getRange(buffer), getText(set), getRange(set),
                             getText(synced))>>]

syncEdit(map, filePath, buffer, contents, changeCount) ==
    IF changeCount < buffer.changeCount
    THEN [buffers |-> map, events |-> <<>>]
    ELSE LET oldText == getText(buffer)
             oldRange == getRange(buffer)
             set == setText(buffer, contents)
             newRange == getRange(set)
             synced == [set EXCEPT !.changeCount = changeCount]
         IN  [buffers |-> mapSet(map, filePath, synced),
              events |-> <<createEditEvent(
                             createFileVersion(filePath, changeCount),
                             oldRange, oldText, newRange, getText(synced))>>]

\* The EDIT case with one of its invariants left out, or with the whole
\* buffer replaced.
editWith(map, filePath, buffer, event, checkVersion, checkOldText, whole) ==
    LET changeCount == event.fileVersion.version
    IN  IF buffer = {}
        THEN [buffers |-> map, events |-> <<>>, check |-> "buffer"]
        ELSE IF checkVersion /\ TheOne(buffer).changeCount # changeCount - 1
        THEN [buffers |-> map, events |-> <<>>, check |-> "changeCount"]
        ELSE IF /\ checkOldText
                /\ getTextInRange(TheOne(buffer), event.oldRange)
                      # event.oldText
        THEN [buffers |-> map, events |-> <<>>, check |-> "oldText"]
        ELSE LET edited ==
                    IF whole THEN setText(TheOne(buffer), event.newText)
                    ELSE setTextInRange(TheOne(buffer), event.oldRange,
                                        event.newText)
             IN  IF edited.changeCount # changeCount
                 THEN [buffers |-> mapSet(map, filePath, edited),
                       events |-> <<>>, check |-> "edited"]
                 ELSE [buffers |-> mapSet(map, filePath, edited),
                       events |-> <<event>>, check |-> ""]

editWholeBuffer(map, filePath, buffer, event) ==
    editWith(map, filePath, buffer, event, TRUE, TRUE, TRUE)

editAnyOldText(map, filePath, buffer, event) ==
    editWith(map, filePath, buffer, event, TRUE, FALSE, FALSE)

editAnyVersion(map, filePath, buffer, event) ==
    editWith(map, filePath, buffer, event, FALSE, TRUE, FALSE)

\* The EDIT case: its three invariants, then the update.
edit(map, filePath, buffer, event) ==
    LET changeCount == event.fileVersion.version
    IN  IF buffer = {}
        THEN [buffers |-> map, events |-> <<>>, check |-> "buffer"]
        ELSE IF TheOne(buffer).changeCount # changeCount - 1
        THEN [buffers |-> map, events |-> <<>>, check |-> "changeCount"]
        ELSE IF getTextInRange(TheOne(buffer), event.oldRange) # event.oldText
        THEN [buffers |-> map, events |-> <<>>, check |-> "oldText"]
        ELSE LET edited == setTextInRange(TheOne(buffer), event.oldRange,
                                          event.newText)
             IN  IF edited.changeCount # changeCount
                 THEN [buffers |-> mapSet(map, filePath, edited),
                       events |-> <<>>, check |-> "edited"]
                 ELSE [buffers |-> mapSet(map, filePath, edited),
                       events |-> <<event>>, check |-> ""]

\* onFileEvent's switch: the Map after the call, the events handed to
\* update(), how the call ended and the invariant() that failed, if any.
Outcome(eff, result, check) ==
    [buffers |-> eff.buffers, events |-> eff.events,
     result |-> result, check |-> check]

\* onFileEvent's switch without the invariant of its OPEN case.
dispatchOpenOver(map, event) ==
    LET filePath == event.fileVersion.filePath
        changeCount == event.fileVersion.version
        buffer == mapGet(map, filePath)
        unchanged == [buffers |-> map, events |-> <<>>]
    IN  CASE event.kind = "open" ->
                Outcome(open(map, filePath, event.contents, changeCount),
                        "ok", "")
          [] event.kind = "close" ->
                IF buffer # {}
                THEN Outcome(close(map, filePath, TheOne(buffer)), "ok", "")
                ELSE Outcome(unchanged, "ok", "")
          [] event.kind = "edit" ->
                LET eff == edit(map, filePath, buffer, event)
                IN  Outcome(eff, IF eff.check = "" THEN "ok" ELSE "DesyncError",
                            eff.check)
          [] event.kind = "sync" ->
                IF buffer = {}
                THEN Outcome(open(map, filePath, event.contents, changeCount),
                             "ok", "")
                ELSE Outcome(syncEdit(map, filePath, TheOne(buffer),
                                      event.contents, changeCount), "ok", "")
          [] OTHER -> Outcome(unchanged, "UnrecognizedEvent", "")

dispatch(map, event) ==
    LET filePath == event.fileVersion.filePath
        changeCount == event.fileVersion.version
        buffer == mapGet(map, filePath)
        unchanged == [buffers |-> map, events |-> <<>>]
    IN  CASE event.kind = "open" ->
                IF buffer # {}
                THEN Outcome(unchanged, "DesyncError", "buffer")
                ELSE Outcome(open(map, filePath, event.contents, changeCount),
                             "ok", "")
          [] event.kind = "close" ->
                IF buffer # {}
                THEN Outcome(close(map, filePath, TheOne(buffer)), "ok", "")
                ELSE Outcome(unchanged, "ok", "")
          [] event.kind = "edit" ->
                LET eff == edit(map, filePath, buffer, event)
                IN  Outcome(eff, IF eff.check = "" THEN "ok" ELSE "DesyncError",
                            eff.check)
          [] event.kind = "sync" ->
                IF buffer = {}
                THEN Outcome(open(map, filePath, event.contents, changeCount),
                             "ok", "")
                ELSE Outcome(syncEdit(map, filePath, TheOne(buffer),
                                      event.contents, changeCount), "ok", "")
          [] OTHER -> Outcome(unchanged, "UnrecognizedEvent", "")

\* dispose's loop: _close for every entry, in the Map's order.
closeAll(map) ==
    [buffers |-> <<>>,
     events |-> [i \in DOMAIN map |->
                    createCloseEvent(
                        createFileVersion(map[i].filePath, map[i].changeCount))]]

\* --------------------------------------------------- FileVersionNotifier
\* onEvent: the event's version becomes the latest known of its path, and
\* every waiter of that path asking for no more than it is resolved.
requestsOnEvent(n, event) ==
    LET filePath == event.fileVersion.filePath
        version == event.fileVersion.version
    IN  [versions |-> [n.versions EXCEPT ![filePath] = version],
         requests |-> {q \in n.requests :
                         ~(/\ q.fileVersion.filePath = filePath
                           /\ q.fileVersion.version <= version)}]

RECURSIVE requestsOnEvents(_, _)
requestsOnEvents(n, events) ==
    IF events = <<>> THEN n
    ELSE requestsOnEvents(requestsOnEvent(n, Head(events)), Tail(events))

isBufferAtVersion(fileVersion) ==
    versions[fileVersion.filePath] >= fileVersion.version

\* waitForBufferAtVersion answers true at once when the version is reached;
\* otherwise it registers a waiter, which onEvent resolves with true and
\* dispose with false.
waitForBufferAtVersion(fileVersion) == isBufferAtVersion(fileVersion)

requestsDispose(n) == [n EXCEPT !.requests = {}]

\* ------------------------------------------------------------ the Subject
\* Subject.next after complete() passes nothing on.
subjectNext(stopped, events) == IF stopped THEN <<>> ELSE events

\* A constructor that does not subscribe _requests to _fileEvents.
forwardedNever(disposed, events) == <<>>

\* What the subscription made in the constructor hands to _requests.
forwarded(disposed, events) == IF disposed THEN <<>> ELSE events

Take(seq, n) == SubSeq(seq, 1, Min(n, Len(seq)))

\* An observer of observeFileEvents() keeps the first MaxLog events it is
\* given and then unsubscribes.
observe(ob, events) ==
    LET got == Take(ob.received \o events, MaxLog)
    IN  [ob EXCEPT !.received = got,
                   !.status = IF Len(got) >= MaxLog THEN "unsubscribed" ELSE @]

\* How many events _fileEvents passed on between the observer's snapshot and
\* its subscription (counted up to MaxLog).
record(ob, events) ==
    IF ob.status = "obtained"
    THEN [ob EXCEPT !.missed = Min(@ + Len(events), MaxLog)]
    ELSE ob

\* An observer subscribed to _fileEvents from the construction of the cache
\* keeps the text of every path it is told of: an Open sets the text of its
\* path, an Edit replaces its oldRange by its newText after a look that the
\* text there is its oldText, a Close forgets the path. `ok` is whether every
\* Edit found its path and its oldText.
NoMirror == [texts |-> [p \in {} |-> <<>>], ok |-> TRUE]

TextAt(text, from, to) ==
    LET f == Min(from, Len(text))
        t == IF Min(to, Len(text)) < f THEN f ELSE Min(to, Len(text))
    IN  SubSeq(text, f + 1, t)

\* The text with the characters after the first `from` up to the `to`-th
\* replaced (offsets past the end of the text count as its end).
Replaced(text, from, to, newText) ==
    LET f == Min(from, Len(text))
        t == IF Min(to, Len(text)) < f THEN f ELSE Min(to, Len(text))
    IN  SubSeq(text, 1, f) \o newText \o SubSeq(text, t + 1, Len(text))

mirrorOnEvent(m, event) ==
    LET filePath == event.fileVersion.filePath
        known == DOMAIN m.texts
    IN  CASE ~m.ok -> m
          [] event.kind = "open" ->
                [m EXCEPT !.texts =
                    [q \in known \cup {filePath} |->
                        IF q = filePath THEN event.contents ELSE m.texts[q]]]
          [] event.kind = "close" ->
                [m EXCEPT !.texts = [q \in known \ {filePath} |-> m.texts[q]]]
          [] event.kind = "edit" ->
                IF filePath \notin known
                THEN [m EXCEPT !.ok = FALSE]
                ELSE IF TextAt(m.texts[filePath], event.oldRange.start,
                               event.oldRange.end) # event.oldText
                THEN [m EXCEPT !.ok = FALSE]
                ELSE [m EXCEPT !.texts[filePath] =
                         Replaced(@, event.oldRange.start, event.oldRange.end,
                                  event.newText)]
          [] OTHER -> [m EXCEPT !.ok = FALSE]

RECURSIVE mirrorOnEvents(_, _)
mirrorOnEvents(m, events) ==
    IF events = <<>> THEN m
    ELSE mirrorOnEvents(mirrorOnEvent(m, Head(events)), Tail(events))

\* _fileEvents.next(event) for each of `events`, in order; `completing` when
\* the caller goes on to dispose _resources and complete the Subject.
fileEventsNext(events, completing) ==
    \E passed \in {subjectNext(fileEventsStopped, events)} :
    \E n \in {requestsOnEvents([versions |-> versions, requests |-> requests],
                               forwarded(resourcesDisposed, passed))} :
    \E rejecting \in {completing /\ ~resourcesDisposed} :
        /\ published' = events
        /\ delivered' = passed
        /\ mirror' = mirrorOnEvents(mirror, passed)
        /\ versions' = n.versions
        /\ requests' = IF rejecting THEN requestsDispose(n).requests
                        ELSE n.requests
        /\ readers' = [r \in Readers |->
              IF readers[r].pc # "waiting" THEN readers[r]
              ELSE IF [fileVersion |-> readers[r].fileVersion, reader |-> r]
                        \notin n.requests
                   THEN [readers[r] EXCEPT !.pc = "resolved", !.waited = TRUE]
              ELSE IF rejecting
                   THEN [readers[r] EXCEPT !.pc = "resolved", !.waited = FALSE]
              ELSE readers[r]]
        /\ observers' = [o \in Observers |->
              IF observers[o].status \notin {"obtained", "subscribed"}
              THEN observers[o]
              ELSE LET ob == record(observers[o], passed)
                       seen == IF ob.status = "subscribed"
                               THEN observe(ob, passed) ELSE ob
                   IN  IF /\ completing
                          /\ ~fileEventsStopped
                          /\ seen.status = "subscribed"
                       THEN [seen EXCEPT !.status = "completed"]
                       ELSE seen]

\* ------------------------------------------------------------- the ghosts
NoSession == [pure |-> FALSE, openVersion |-> 0, edits |-> 0, expected |-> <<>>]

\* The text with the characters after the first `from` up to the `to`-th
\* replaced (offsets past the end of the text count as its end).
Splice(text, from, to, newText) ==
    LET f == Min(from, Len(text))
        t == IF Min(to, Len(text)) < f THEN f ELSE Min(to, Len(text))
    IN  [i \in 1..(Len(text) - (t - f) + Len(newText)) |->
            IF i <= f THEN text[i]
            ELSE IF i <= f + Len(newText) THEN newText[i - f]
            ELSE text[i - Len(newText) + (t - f)]]

sessionAfter(event, out) ==
    LET filePath == event.fileVersion.filePath
    IN  IF out.events = <<>> \/ filePath \notin DOMAIN session THEN session
        ELSE [session EXCEPT ![filePath] =
                CASE event.kind = "open" ->
                        [pure |-> TRUE, openVersion |-> event.fileVersion.version,
                         edits |-> 0, expected |-> event.contents]
                  [] event.kind = "edit" /\ session[filePath].pure ->
                        [@ EXCEPT !.edits = @ + 1,
                                  !.expected = Splice(@, event.oldRange.start,
                                                      event.oldRange.end,
                                                      event.newText)]
                  [] OTHER -> NoSession]

\* What is recorded of a call: how it ended and the invariant() that failed,
\* if any, and what the call met: whether the path had a buffer, how far the
\* version of an Edit, Sync or Close was from the buffer's changeCount, and whether
\* the oldText of an Edit was the text at its oldRange.
Call(op, filePath, result, check, hadBuffer, delta, matched) ==
    [op |-> op, filePath |-> filePath, result |-> result, check |-> check,
     hadBuffer |-> hadBuffer, delta |-> delta, matched |-> matched]

CallOn(event, out) ==
    LET buffer == getBuffer(event.fileVersion.filePath)
        versioned == buffer # {} /\ event.kind \in {"edit", "sync", "close"}
    IN  Call(event.kind, event.fileVersion.filePath, out.result, out.check,
             buffer # {},
             IF versioned
             THEN event.fileVersion.version - TheOne(buffer).changeCount
             ELSE 0,
             IF buffer # {} /\ event.kind = "edit"
             THEN getTextInRange(TheOne(buffer), event.oldRange) = event.oldText
             ELSE TRUE)

\* A call that passes nothing to _fileEvents.next.
Stepped(op, filePath) ==
    /\ last' = Call(op, filePath, "ok", "", FALSE, 0, TRUE)
    /\ published' = <<>>
    /\ delivered' = <<>>
    /\ mirror' = mirror

\* ------------------------------------------------------------ constructor
Init ==
    /\ buffers = <<>>
    /\ versions = [p \in Paths |-> NoVersion]
    /\ requests = {}
    /\ resourcesDisposed = FALSE
    /\ fileEventsStopped = FALSE
    /\ directoryEventsStopped = FALSE
    /\ directoryValue = {}
    /\ observers = [o \in Observers |->
          [status |-> "none", snapshot |-> <<>>, received |-> <<>>,
           missed |-> 0]]
    /\ dirObservers = [o \in Observers |-> [status |-> "none", received |-> <<>>]]
    /\ readers = [r \in Readers |->
          [pc |-> "idle", fileVersion |-> createFileVersion("/a", 0),
           waited |-> FALSE, result |-> {}]]
    /\ last = Call("new", "", "ok", "", FALSE, 0, TRUE)
    /\ published = <<>>
    /\ delivered = <<>>
    /\ session = [p \in {} |-> NoSession]
    /\ mirror = NoMirror

\* The same, with the history of the edited file recorded.
InitText ==
    /\ buffers = <<>>
    /\ versions = [p \in Paths |-> NoVersion]
    /\ requests = {}
    /\ resourcesDisposed = FALSE
    /\ fileEventsStopped = FALSE
    /\ directoryEventsStopped = FALSE
    /\ directoryValue = {}
    /\ observers = [o \in Observers |->
          [status |-> "none", snapshot |-> <<>>, received |-> <<>>,
           missed |-> 0]]
    /\ dirObservers = [o \in Observers |-> [status |-> "none", received |-> <<>>]]
    /\ readers = [r \in Readers |->
          [pc |-> "idle", fileVersion |-> createFileVersion("/a", 0),
           waited |-> FALSE, result |-> {}]]
    /\ last = Call("new", "", "ok", "", FALSE, 0, TRUE)
    /\ published = <<>>
    /\ delivered = <<>>
    /\ session = [p \in {EditedPath} |-> NoSession]
    /\ mirror = NoMirror

\* -------------------------------------------------------------- the calls
onFileEvent(event) ==
    \E out \in {dispatch(buffers, event)} :
        /\ buffers' = out.buffers
        /\ fileEventsNext(out.events, FALSE)
        /\ last' = CallOn(event, out)
        /\ session' = sessionAfter(event, out)
        /\ UNCHANGED <<resourcesDisposed, fileEventsStopped,
                       directoryEventsStopped, directoryValue, dirObservers>>

\* dispose without its _directoryEvents.complete().
disposeFileEventsOnly ==
    \E out \in {closeAll(buffers)} :
        /\ buffers' = out.buffers
        /\ fileEventsNext(out.events, TRUE)
        /\ resourcesDisposed' = TRUE
        /\ fileEventsStopped' = TRUE
        /\ last' = Call("dispose", "", "ok", "", FALSE, 0, TRUE)
        /\ session' = [p \in DOMAIN session |-> NoSession]
        /\ UNCHANGED <<directoryValue, directoryEventsStopped, dirObservers>>

dispose ==
    \E out \in {closeAll(buffers)} :
        /\ buffers' = out.buffers
        /\ fileEventsNext(out.events, TRUE)
        /\ resourcesDisposed' = TRUE
        /\ fileEventsStopped' = TRUE
        /\ directoryEventsStopped' = TRUE
        /\ dirObservers' = [o \in Observers |->
              IF dirObservers[o].status = "subscribed"
              THEN [dirObservers[o] EXCEPT !.status = "completed"]
              ELSE dirObservers[o]]
        /\ last' = Call("dispose", "", "ok", "", FALSE, 0, TRUE)
        /\ session' = [p \in DOMAIN session |-> NoSession]
        /\ UNCHANGED directoryValue

\* The texts of the model are at most MaxLen long.
Fits(event) ==
    event.kind = "edit" =>
        \A b \in getBuffer(event.fileVersion.filePath) :
            Len(setTextInRange(b, event.oldRange, event.newText).text) <= MaxLen

\* onDirectoriesChanged passing on only a set that differs from the last.
onDirectoriesChangedDistinct(openDirectories) ==
    /\ directoryValue' = openDirectories
    /\ dirObservers' = [o \in Observers |->
          IF /\ dirObservers[o].status = "subscribed"
             /\ ~directoryEventsStopped
             /\ openDirectories # directoryValue
          THEN LET got == Append(dirObservers[o].received, openDirectories)
               IN  [status |-> IF Len(got) >= MaxLog THEN "unsubscribed"
                               ELSE "subscribed",
                    received |-> got]
          ELSE dirObservers[o]]
    /\ Stepped("onDirectoriesChanged", "")
    /\ UNCHANGED <<buffers, versions, requests, resourcesDisposed,
                   fileEventsStopped, directoryEventsStopped, observers,
                   readers, session>>

onDirectoriesChanged(openDirectories) ==
    /\ directoryValue' = openDirectories
    /\ dirObservers' = [o \in Observers |->
          IF dirObservers[o].status = "subscribed" /\ ~directoryEventsStopped
          THEN LET got == Append(dirObservers[o].received, openDirectories)
               IN  [status |-> IF Len(got) >= MaxLog THEN "unsubscribed"
                               ELSE "subscribed",
                    received |-> got]
          ELSE dirObservers[o]]
    /\ Stepped("onDirectoriesChanged", "")
    /\ UNCHANGED <<buffers, versions, requests, resourcesDisposed,
                   fileEventsStopped, directoryEventsStopped, observers,
                   readers, session>>

\* observeDirectoryEvents().subscribe(): a BehaviorSubject hands its value
\* to a new observer, a completed one only completes it.
subscribeDirectoryEvents(o) ==
    /\ dirObservers[o].status = "none"
    /\ dirObservers' = [dirObservers EXCEPT ![o] =
          IF directoryEventsStopped
          THEN [status |-> "completed", received |-> <<>>]
          ELSE [status |-> "subscribed", received |-> <<directoryValue>>]]
    /\ Stepped("subscribeDirectoryEvents", "")
    /\ UNCHANGED <<buffers, versions, requests, resourcesDisposed,
                   fileEventsStopped, directoryEventsStopped, directoryValue,
                   observers, readers, session>>

getOpenDirectories == directoryValue

\* observeFileEvents(): the Open events of the buffers of this moment,
\* followed by _fileEvents.
replay(map) ==
    [i \in DOMAIN map |->
        createOpenEvent(createFileVersion(map[i].filePath, map[i].changeCount),
                        map[i].text)]

observeFileEvents(o) ==
    /\ observers[o].status \in {"none", "unsubscribed", "completed"}
    /\ observers' = [observers EXCEPT ![o] =
          [status |-> "obtained", snapshot |-> replay(buffers),
           received |-> <<>>, missed |-> 0]]
    /\ Stepped("observeFileEvents", "")
    /\ UNCHANGED <<buffers, versions, requests, resourcesDisposed,
                   fileEventsStopped, directoryEventsStopped, directoryValue,
                   dirObservers, readers, session>>

\* Subscribing to the Observable observeFileEvents() returned: the array is
\* emitted at once, and only then is _fileEvents subscribed to.
subscribeFileEvents(o) ==
    /\ observers[o].status = "obtained"
    /\ observers' = [observers EXCEPT ![o] =
          LET seen == observe([@ EXCEPT !.status = "subscribed"], @.snapshot)
          IN  IF seen.status = "subscribed" /\ fileEventsStopped
              THEN [seen EXCEPT !.status = "completed"]
              ELSE seen]
    /\ Stepped("subscribeFileEvents", "")
    /\ UNCHANGED <<buffers, versions, requests, resourcesDisposed,
                   fileEventsStopped, directoryEventsStopped, directoryValue,
                   dirObservers, readers, session>>

\* getBufferAtVersion up to its await.
getBufferAtVersion(r, fileVersion) ==
    /\ readers[r].pc \in {"idle", "done"}
    /\ IF waitForBufferAtVersion(fileVersion)
       THEN /\ readers' = [readers EXCEPT ![r] =
                  [pc |-> "resolved", fileVersion |-> fileVersion,
                   waited |-> TRUE, result |-> {}]]
            /\ UNCHANGED requests
       ELSE /\ readers' = [readers EXCEPT ![r] =
                  [pc |-> "waiting", fileVersion |-> fileVersion,
                   waited |-> FALSE, result |-> {}]]
            /\ requests' = requests \cup
                  {[fileVersion |-> fileVersion, reader |-> r]}
    /\ Stepped("getBufferAtVersion", fileVersion.filePath)
    /\ UNCHANGED <<buffers, versions, resourcesDisposed, fileEventsStopped,
                   directoryEventsStopped, directoryValue, observers,
                   dirObservers, session>>

\* getBufferAtVersion returning whatever buffer the path has.
bufferAtVersionUnchecked(waited, fileVersion) ==
    IF ~waited THEN {} ELSE getBuffer(fileVersion.filePath)

\* The buffer getBufferAtVersion returns once its await has an answer.
bufferAtVersion(waited, fileVersion) ==
    IF ~waited THEN {}
    ELSE {b \in getBuffer(fileVersion.filePath) :
            b.changeCount = fileVersion.version}

\* getBufferAtVersion from its await on.
getBufferAtVersionResume(r) ==
    /\ readers[r].pc = "resolved"
    /\ readers' = [readers EXCEPT ![r] =
          [@ EXCEPT !.pc = "done",
                    !.result = bufferAtVersion(readers[r].waited,
                                               readers[r].fileVersion)]]
    /\ Stepped("getBufferAtVersionResume", readers[r].fileVersion.filePath)
    /\ UNCHANGED <<buffers, versions, requests, resourcesDisposed,
                   fileEventsStopped, directoryEventsStopped, directoryValue,
                   observers, dirObservers, session>>

tryGetBufferAtVersionSynchronously(fileVersion) ==
    IF ~isBufferAtVersion(fileVersion) THEN {}
    ELSE {b \in getBuffer(fileVersion.filePath) :
            b.changeCount = fileVersion.version}

ApplyEvent == \E event \in FileEvents : Fits(event) /\ onFileEvent(event)

ApplySmallEvent ==
    \E event \in SmallFileEvents : Fits(event) /\ onFileEvent(event)

ApplyTextEvent == \E event \in TextEvents : Fits(event) /\ onFileEvent(event)

ApplyFrameEvent ==
    \E event \in FrameFileEvents : Fits(event) /\ onFileEvent(event)

ChangeDirectories == \E d \in DirectorySets : onDirectoriesChanged(d)

SubscribeDirectories == \E o \in Observers : subscribeDirectoryEvents(o)

Observe == \E o \in Observers : observeFileEvents(o)

Subscribe == \E o \in Observers : subscribeFileEvents(o)

Fetch == \E r \in Readers, fv \in FileVersions : getBufferAtVersion(r, fv)

Resume == \E r \in Readers : getBufferAtVersionResume(r)

\* The cache alone: every file, small texts.
Next == ApplyEvent \/ dispose

Spec == Init /\ [][Next]_vars

\* One file, every text.
NextText == ApplyTextEvent \/ dispose

SpecText == InitText /\ [][NextText]_vars

\* The cache and the callers of getBufferAtVersion.
NextWait == ApplySmallEvent \/ dispose \/ Fetch \/ Resume

SpecWait == Init /\ [][NextWait]_vars

\* The cache and the observers of its file events.
NextObserve ==
    \/ ApplySmallEvent
    \/ dispose
    \/ Observe
    \/ Subscribe

SpecObserve == Init /\ [][NextObserve]_vars

\* The cache and the observers of its directories.
NextDirectories ==
    \/ ApplySmallEvent
    \/ dispose
    \/ ChangeDirectories
    \/ SubscribeDirectories

SpecDirectories == Init /\ [][NextDirectories]_vars

\* Every file and the callers of getBufferAtVersion.
NextFrame == ApplyFrameEvent \/ dispose \/ Fetch \/ Resume

SpecFrame == Init /\ [][NextFrame]_vars

\* ------------------------------------------------------------- the claims
BufferOf(filePath, text, changeCount) ==
    [filePath |-> filePath, text |-> text, changeCount |-> changeCount]

\* C1: after an Open with version v0 and N successful Edits of a path, its
\* buffer's changeCount is v0 + N and its text is the opened contents with
\* the N range replacements applied in order.
OpenThenEdits ==
    \A p \in DOMAIN session :
        session[p].pure =>
            getBuffer(p) = {BufferOf(p, session[p].expected,
                                     session[p].openVersion + session[p].edits)}

OpenThenTwoEdits ==
    /\ EditedPath \in DOMAIN session
    /\ session[EditedPath].pure
    /\ session[EditedPath].edits >= 2
    /\ session[EditedPath].expected # <<>>
    /\ last.op = "edit"

\* C2: an Edit of an open path whose oldText is not the text at its oldRange
\* fails with a DesyncError, leaves every buffer as it was and passes no
\* event to _fileEvents.
EditWithWrongOldText ==
    [][(last'.op = "edit" /\ last'.hadBuffer /\ ~last'.matched) =>
          /\ last'.result = "DesyncError"
          /\ buffers' = buffers
          /\ published' = <<>>
          /\ delivered' = <<>>]_vars

WrongOldTextAlone ==
    /\ last.op = "edit"
    /\ last.hadBuffer
    /\ ~last.matched
    /\ last.delta = 1
    /\ last.result = "DesyncError"

\* C3: an Edit of an open path whose version is not the buffer's changeCount
\* plus one fails with a DesyncError, leaves every buffer as it was and passes
\* no event to _fileEvents.
EditWithWrongVersion ==
    [][(last'.op = "edit" /\ last'.hadBuffer /\ last'.delta # 1) =>
          /\ last'.result = "DesyncError"
          /\ buffers' = buffers
          /\ published' = <<>>
          /\ delivered' = <<>>]_vars

VersionSkippedAlone ==
    /\ last.op = "edit"
    /\ last.hadBuffer
    /\ last.matched
    /\ last.delta > 1
    /\ last.result = "DesyncError"

\* C4: a Sync of an open path whose version is less than the buffer's
\* changeCount changes no buffer, passes no event to _fileEvents, leaves the
\* notifier as it was and raises no error.
StaleSyncIsNoOp ==
    [][(last'.op = "sync" /\ last'.hadBuffer /\ last'.delta < 0) =>
          /\ last'.result = "ok"
          /\ buffers' = buffers
          /\ versions' = versions
          /\ requests' = requests
          /\ published' = <<>>
          /\ delivered' = <<>>]_vars

StaleSyncApplied ==
    /\ last.op = "sync"
    /\ last.hadBuffer
    /\ last.delta < 0
    /\ getBuffer(last.filePath) # {}

\* C5: a Sync of a path with no buffer, or whose version is at least the
\* buffer's changeCount, raises no error and leaves the path with a buffer
\* holding the synced contents at the synced version.
SyncSetsBuffer ==
    [][last'.op = "sync" =>
          \A e \in {x \in TextEvents : x.kind = "sync"} :
              (/\ onFileEvent(e)
               /\ \A b \in getBuffer(e.fileVersion.filePath) :
                      e.fileVersion.version >= b.changeCount)
              => /\ last'.result = "ok"
                 /\ mapGet(buffers', e.fileVersion.filePath)
                      = {BufferOf(e.fileVersion.filePath, e.contents,
                                  e.fileVersion.version)}]_vars

SyncSkippedAhead ==
    /\ last.op = "sync"
    /\ last.hadBuffer
    /\ last.delta > 1
    /\ last.result = "ok"
    /\ \E b \in getBuffer(last.filePath) : b.text # <<>>

\* C6: a subscriber of observeFileEvents() misses none of the events that
\* _fileEvents passed on after its replay snapshot was taken: the Opens it is
\* replayed are followed by every event since the snapshot.
ReplayThenLive ==
    \A o \in Observers :
        observers[o].status \in {"subscribed", "unsubscribed", "completed"}
            => observers[o].missed = 0

\* The Map with the change a canonical event tells of.
Applied(map, event) ==
    LET filePath == event.fileVersion.filePath
        version == event.fileVersion.version
    IN  CASE event.kind = "open" ->
                mapSet(map, filePath,
                       [TextBuffer(event.contents) EXCEPT !.changeCount = version])
          [] event.kind = "close" -> mapDelete(map, filePath)
          [] event.kind = "edit" /\ mapGet(map, filePath) # {} ->
                mapSet(map, filePath,
                       [setTextInRange(TheOne(mapGet(map, filePath)),
                                       event.oldRange, event.newText)
                          EXCEPT !.changeCount = version])
          [] OTHER -> map

FileEventKinds == {"open", "close", "edit", "sync", "rename"}

\* C7: in every state, those after dispose included, an onFileEvent that
\* changes the Map or a buffer delivers exactly one canonical event, and a
\* delivered event comes with the change it tells of.
MutationsArePublished ==
    [][last'.op \in FileEventKinds =>
          /\ (buffers' # buffers => Len(delivered') = 1)
          /\ \A i \in DOMAIN delivered' :
                 buffers' = Applied(buffers, delivered'[i])]_vars

NoWaiterAfterTeardown ==
    resourcesDisposed =>
        /\ requests = {}
        /\ \A r \in Readers : readers[r].pc # "waiting"

\* C10: a buffer getBufferAtVersion returns is the buffer its path has at the
\* moment of the return, with the changeCount asked for; when the path has no
\* buffer then, or one with another changeCount, nothing is returned.
ReturnedBufferIsAtVersion ==
    [][\A r \in Readers :
          (readers[r].pc = "resolved" /\ readers'[r].pc = "done") =>
              LET fileVersion == readers[r].fileVersion
                  current == mapGet(buffers', fileVersion.filePath)
              IN  /\ \A b \in readers'[r].result :
                         b \in current /\ b.changeCount = fileVersion.version
                  /\ (\A b \in current : b.changeCount # fileVersion.version)
                         => readers'[r].result = {}]_vars

BufferReturned ==
    /\ last.op = "getBufferAtVersionResume"
    /\ \E r \in Readers :
           /\ readers[r].pc = "done"
           /\ readers[r].result # {}
           /\ readers[r].result = getBuffer(readers[r].fileVersion.filePath)

\* The events among `events` that tell the notifier that the file has reached
\* the version asked for.
Reaching(events, fileVersion) ==
    {i \in DOMAIN events :
        /\ events[i].fileVersion.filePath = fileVersion.filePath
        /\ events[i].fileVersion.version >= fileVersion.version}

\* C11: a wait for a version the notifier already knows to be reached
\* resolves true at once; a wait for a later version stays pending over every
\* call that delivers no event reaching it, and resolves true in the very
\* call that delivers the first event of its path with that version or more.
WaitResolvesAtNotify ==
    [][\A r \in Readers :
          /\ (readers[r].pc \in {"idle", "done"} /\ readers'[r].pc # readers[r].pc)
                => IF versions[readers'[r].fileVersion.filePath]
                        >= readers'[r].fileVersion.version
                   THEN /\ readers'[r].pc = "resolved"
                        /\ readers'[r].waited
                        /\ requests' = requests
                   ELSE readers'[r].pc = "waiting"
          /\ readers[r].pc = "waiting"
                => IF Reaching(delivered', readers[r].fileVersion) # {}
                   THEN readers'[r].pc = "resolved" /\ readers'[r].waited
                   ELSE \/ readers'[r] = readers[r]
                        \/ /\ last'.op = "dispose"
                           /\ readers'[r].pc = "resolved"
                           /\ ~readers'[r].waited]_vars

StillWaitingAfterEvent ==
    \E r \in Readers :
        /\ readers[r].pc = "waiting"
        /\ delivered # <<>>
        /\ \A i \in DOMAIN delivered :
               /\ delivered[i].fileVersion.filePath = readers[r].fileVersion.filePath
               /\ delivered[i].fileVersion.version < readers[r].fileVersion.version

\* C12: in every state _tryGetBufferAtVersionSynchronously returns the buffer
\* of the path exactly when the path has one whose changeCount is the version
\* asked for, and nothing otherwise.
TryGetIsBufferAtChangeCount ==
    \A fileVersion \in FileVersions :
        tryGetBufferAtVersionSynchronously(fileVersion)
            = {b \in getBuffer(fileVersion.filePath) :
                  b.changeCount = fileVersion.version}

\* C13: a Close of a path with no buffer raises no error, passes no event to
\* _fileEvents and changes nothing; a Close of a path with a buffer removes
\* that buffer alone and passes exactly one Close event, whose version is the
\* buffer's changeCount whatever version the incoming Close carries.
CloseRemovesAndPublishes ==
    [][last'.op = "close" =>
          LET filePath == last'.filePath
              buffer == mapGet(buffers, filePath)
          IN  /\ last'.result = "ok"
              /\ buffer = {} =>
                    /\ buffers' = buffers
                    /\ published' = <<>>
                    /\ versions' = versions
                    /\ requests' = requests
              /\ \A b \in buffer :
                    /\ mapGet(buffers', filePath) = {}
                    /\ \A q \in Paths \ {filePath} :
                           mapGet(buffers', q) = mapGet(buffers, q)
                    /\ Len(buffers') = Len(buffers) - 1
                    /\ published' = <<[kind |-> "close",
                                       fileVersion |->
                                          [filePath |-> filePath,
                                           version |-> b.changeCount]]>>]_vars

ClosedAtOtherVersion ==
    /\ last.op = "close"
    /\ last.hadBuffer
    /\ last.delta # 0
    /\ buffers # <<>>
    /\ Len(published) = 1
    /\ delivered = published

\* C14: an Open of a path that has a buffer fails with a DesyncError, changes
\* no buffer and passes no event to _fileEvents; an Open of a path with no
\* buffer gives it a buffer with the contents and the version of the event
\* and passes exactly one Open event carrying them.
OpenCreatesOrFails ==
    [][last'.op = "open" =>
          \A e \in {x \in FileEvents : x.kind = "open"} :
              onFileEvent(e) =>
                  LET filePath == e.fileVersion.filePath
                  IN  IF mapGet(buffers, filePath) # {}
                      THEN /\ last'.result = "DesyncError"
                           /\ buffers' = buffers
                           /\ published' = <<>>
                           /\ versions' = versions
                      ELSE /\ last'.result = "ok"
                           /\ mapGet(buffers', filePath)
                                 = {BufferOf(filePath, e.contents,
                                             e.fileVersion.version)}
                           /\ \A q \in Paths \ {filePath} :
                                  mapGet(buffers', q) = mapGet(buffers, q)
                           /\ published'
                                 = <<[kind |-> "open",
                                      fileVersion |-> e.fileVersion,
                                      contents |-> e.contents]>>]_vars

OpenedAtVersion ==
    /\ last.op = "open"
    /\ last.result = "ok"
    /\ delivered = published
    /\ \E b \in getBuffer(last.filePath) : b.changeCount > 0 /\ b.text # <<>>
    /\ Len(buffers) > 1

\* C15: no event passed to _fileEvents is a Sync: a Sync of a path with no
\* buffer passes exactly one Open with the synced contents and version, and
\* a Sync of a path whose buffer is not ahead of it passes exactly one Edit
\* with the synced version, the whole previous text as oldText and the whole
\* synced contents as newText, also when the two texts are equal.
SyncIsPublishedAsOpenOrEdit ==
    [][/\ \A i \in DOMAIN published' :
             published'[i].kind \in {"open", "close", "edit"}
       /\ last'.op = "sync" =>
             \A e \in {x \in TextEvents : x.kind = "sync"} :
                 onFileEvent(e) =>
                     LET buffer == mapGet(buffers, e.fileVersion.filePath)
                     IN  /\ buffer = {} =>
                               published'
                                 = <<[kind |-> "open",
                                      fileVersion |-> e.fileVersion,
                                      contents |-> e.contents]>>
                         /\ \A b \in buffer :
                               e.fileVersion.version >= b.changeCount =>
                                   /\ Len(published') = 1
                                   /\ published'[1].kind = "edit"
                                   /\ published'[1].fileVersion = e.fileVersion
                                   /\ published'[1].oldText = b.text
                                   /\ published'[1].newText = e.contents]_vars

SyncedSameText ==
    /\ last.op = "sync"
    /\ last.hadBuffer
    /\ Len(published) = 1
    /\ delivered = published
    /\ published[1].kind = "edit"
    /\ published[1].oldText = published[1].newText
    /\ published[1].newText # <<>>

\* C16: dispose, in whatever state it is called, leaves no buffer and has
\* _fileEvents deliver, to its observers and to the notifier, exactly one
\* Close for every path that had a buffer, carrying that buffer's changeCount.
DisposeClosesEveryBuffer ==
    [][last'.op = "dispose" =>
          /\ buffers' = <<>>
          /\ Len(delivered') = Len(buffers)
          /\ \A i \in DOMAIN buffers :
                /\ \E j \in DOMAIN delivered' :
                       delivered'[j]
                         = [kind |-> "close",
                            fileVersion |-> [filePath |-> buffers[i].filePath,
                                             version |-> buffers[i].changeCount]]
                /\ versions'[buffers[i].filePath] = buffers[i].changeCount]_vars

\* C17: an onFileEvent that fails (DesyncError or unknown kind) changes no
\* buffer, neither the notifier's versions nor its waiters, and passes no
\* event to _fileEvents; an onFileEvent that succeeds changes the buffer of
\* no path but its own.
FailedEventChangesNothing ==
    [][last'.op \in FileEventKinds =>
          /\ last'.result # "ok" =>
                /\ buffers' = buffers
                /\ versions' = versions
                /\ requests' = requests
                /\ readers' = readers
                /\ published' = <<>>
          /\ last'.result = "ok" =>
                \A q \in Paths \ {last'.filePath} :
                    mapGet(buffers', q) = mapGet(buffers, q)]_vars

EditFailedAmongOthers ==
    /\ last.op = "edit"
    /\ last.result = "DesyncError"
    /\ last.hadBuffer
    /\ Len(buffers) = 2
    /\ requests # {}
    /\ ~resourcesDisposed

\* C18: getOpenDirectories returns the empty set at first and from then on
\* the set of the latest onDirectoriesChanged, whatever the sets before it;
\* and every onDirectoriesChanged before dispose hands its set to every
\* observer of the directories, also when the set is the one already held.
DirectoriesAreTheLatest ==
    /\ getOpenDirectories = {}
    /\ [][IF last'.op = "onDirectoriesChanged"
           THEN \A d \in DirectorySets :
                    onDirectoriesChanged(d) =>
                        /\ getOpenDirectories' = d
                        /\ ~directoryEventsStopped =>
                              \A o \in Observers :
                                  dirObservers[o].status = "subscribed" =>
                                      dirObservers'[o].received
                                        = Append(dirObservers[o].received, d)
           ELSE getOpenDirectories' = getOpenDirectories]_vars

SameDirectoriesAgain ==
    /\ last.op = "onDirectoriesChanged"
    /\ ~directoryEventsStopped
    /\ \E o \in Observers :
           LET got == dirObservers[o].received
           IN  /\ Len(got) >= 2
               /\ got[Len(got)] = got[Len(got) - 1]
               /\ got[Len(got)] # {}

\* The paths whose buffer has, over a step, the same changeCount and another
\* text. (A step cannot close a path and open it again, and within a session
\* the changeCount never goes down, so a changeCount that comes with two
\* texts in one session does so over one step.)
Retexted ==
    {p \in Paths :
        \E b \in getBuffer(p) :
            \E c \in mapGet(buffers', p) :
                b.changeCount = c.changeCount /\ b.text # c.text}

\* C19: within a session of a path, a changeCount comes with one text: no
\* call leaves the buffer of a path with the same changeCount and another
\* text.
VersionIdentifiesText == [][Retexted = {}]_vars

\* C19, amended: only a Sync of the path carrying the buffer's own
\* changeCount leaves the buffer with the same changeCount and another text.
VersionIdentifiesTextButForSync ==
    [][\A p \in Retexted :
          /\ last'.op = "sync"
          /\ last'.filePath = p
          /\ last'.delta = 0]_vars

SyncedAtSameVersion ==
    /\ last.op = "sync"
    /\ last.hadBuffer
    /\ last.delta = 0
    /\ Len(published) = 1
    /\ published[1].kind = "edit"
    /\ published[1].oldText # published[1].newText
    /\ \E b \in getBuffer(last.filePath) :
           b.changeCount > 0 /\ b.text = published[1].newText

\* C20: the changeCount of a path that stays open never goes down, and the
\* events passed to _fileEvents for it carry its changeCount: an Open or an
\* Edit the changeCount the buffer has after the call, a Close the one it
\* had before. (So the versions published between the Open of a path and its
\* Close never go down, and the Close carries the last of them.)
ChangeCountNeverGoesDown ==
    [][/\ \A p \in Paths :
             \A b \in getBuffer(p) :
                 \A c \in mapGet(buffers', p) :
                     c.changeCount >= b.changeCount
       /\ \A i \in DOMAIN published' :
             LET e == published'[i]
                 p == e.fileVersion.filePath
             IN  IF e.kind = "close"
                 THEN /\ getBuffer(p) # {}
                      /\ \A b \in getBuffer(p) :
                             e.fileVersion.version = b.changeCount
                 ELSE /\ mapGet(buffers', p) # {}
                      /\ \A c \in mapGet(buffers', p) :
                             e.fileVersion.version = c.changeCount]_vars

ChangeCountRaised ==
    /\ last.op \in {"edit", "sync"}
    /\ last.hadBuffer
    /\ last.result = "ok"
    /\ last.delta > 0
    /\ Len(published) = 1
    /\ \E b \in getBuffer(last.filePath) :
           /\ b.changeCount = MaxVersion
           /\ published[1].fileVersion.version = b.changeCount

\* C21: in every state, those after failed calls and after dispose included,
\* the latest version the notifier knows of a path that has a buffer is that
\* buffer's changeCount.
NotifierKnowsChangeCount ==
    \A p \in Paths :
        \A b \in getBuffer(p) : versions[p] = b.changeCount

\* C22: until dispose, an observer of _fileEvents subscribed from the
\* construction of the cache that applies every event it is given to its own
\* texts knows exactly the paths that have a buffer, each with the text of
\* its buffer, and no Edit it is given fails its look at oldText.
MirrorFollowsBuffers ==
    ~fileEventsStopped =>
        /\ mirror.ok
        /\ DOMAIN mirror.texts = getOpenFiles
        /\ \A p \in DOMAIN mirror.texts :
               \A b \in getBuffer(p) : getText(b) = mirror.texts[p]

MirrorEdited ==
    /\ ~fileEventsStopped
    /\ last.op = "edit"
    /\ last.result = "ok"
    /\ delivered # <<>>
    /\ mirror.ok
    /\ \E p \in DOMAIN mirror.texts : Len(mirror.texts[p]) = MaxLen

\* C23: the events passed to _fileEvents for a path read Open, Edits, Close,
\* Open, ...: a call passes at most one event for a path; an Open only for a
\* path that has no buffer, and leaves it with one; an Edit only for a path
\* that has a buffer, and leaves it with one; a Close only for a path that
\* has a buffer, and leaves it with none; and a path gets or loses its
\* buffer only in a call that passes an event for it.
PublishedEventsAreWellFormed ==
    [][/\ \A i, j \in DOMAIN published' :
             published'[i].fileVersion.filePath
                 = published'[j].fileVersion.filePath => i = j
       /\ \A i \in DOMAIN published' :
             LET e == published'[i]
                 before == getBuffer(e.fileVersion.filePath) # {}
                 after == mapGet(buffers', e.fileVersion.filePath) # {}
             IN  CASE e.kind = "open" -> ~before /\ after
                   [] e.kind = "edit" -> before /\ after
                   [] e.kind = "close" -> before /\ ~after
                   [] OTHER -> FALSE
       /\ \A p \in Paths :
             (getBuffer(p) = {}) # (mapGet(buffers', p) = {}) =>
                 \E i \in DOMAIN published' :
                     published'[i].fileVersion.filePath = p]_vars

TwoPathsClosedAtOnce ==
    /\ last.op = "dispose"
    /\ Len(published) = 2
    /\ delivered = published
    /\ \A i \in DOMAIN published : published[i].kind = "close"

====
